---- MODULE Spec2Model ----
(***************************************************************************)
(* A model of the serper client: the request model (SetDefaults,          *)
(* Validate) of serper/types.go and the client pipeline of                *)
(* serper/client.go (prepareRequest, the five vertical operations,        *)
(* CheckConnectivity and doRequest).                                       *)
(*                                                                         *)
(* Spec        : one caller driving one Client through the verticals; the  *)
(*               transport (Doer) is the environment and may answer with   *)
(*               any error or any response, except that it honours the     *)
(*               context of the request it is handed: a request with a     *)
(*               cancelled context gets the context's error.               *)
(* SpecConc    : several goroutines calling verticals on one Client with   *)
(*               one shared SearchRequest object.                          *)
(* SpecNew     : a program calling the constructor New with any key and    *)
(*               options.                                                  *)
(* SpecCtx     : a program that constructs a client, derives contexts with *)
(*               WithAPIKey and calls every operation on them.             *)
(* SpecBody    : the holder of a dispatched request reading its body and   *)
(*               replaying it through GetBody.                             *)
(* SpecBig     : an upstream whose bodies are about as long as the read    *)
(*               limit.                                                    *)
(* SpecRequest : a caller invoking the exported methods SetDefaults and    *)
(*               Validate directly on a SearchRequest, as the unit tests   *)
(*               do.                                                       *)
(***************************************************************************)
EXTENDS Integers, Sequences, FiniteSets, TLC

VARIABLES
    client,     \* the Client's fields: apiKey, baseURL, doer
    req,        \* the caller's SearchRequest object (passed by pointer)
    pc,         \* "idle" | "inDo" (blocked in doer.Do) | "returned"
    op,         \* the operation of the current call
    ctx,        \* the context.Context of the current call
    before,     \* the caller's SearchRequest as it was when the call started
    prepared,   \* the request handed to doRequest (reqBody), or None
    sent,       \* the *http.Request handed to doer.Do, or None
    doCalls,    \* how many times doer.Do was invoked during the current call
    reply,      \* what doer.Do returned, or None
    result,     \* what the operation returned: [resp, err], or None
    trace,      \* what doRequest did with the response, in order
    nread,      \* how many bytes of the response body the current call read
    readers,    \* the readers over the request body: req.Body, then GetBody's
    keys,       \* SpecCtx: the keys WithAPIKey was applied with to build ctx
    nw,         \* SpecNew: the last call of New, [apiKey, opts, client, err], or None
    calls,      \* SpecConc: the call each concurrent caller is in
    sdHist,     \* SpecRequest: <<r0, r1, ...>>, ri after i direct SetDefaults calls
    validated   \* SpecRequest: [r, err] of the last direct Validate call, or None

vars == <<client, req, pc, op, ctx, before, prepared, sent, doCalls, reply, result,
          trace, nread, readers, keys, nw, calls, sdHist, validated>>

\* An absent record (a nil pointer, a value not yet produced) and a nil error.
None == [none |-> TRUE]
Nil == "nil"

----------------------------------------------------------------------------
(* Bounds of the model. *)

\* Num is drawn from -NumSlack..NumSlack, the same window around the upper
\* limit, and one mid-range value; Page from -NumSlack..NumSlack+2.
NumSlack == 1

\* How many times in a row a caller applies SetDefaults to one request.
MaxSetDefaults == 2

\* How many options New is called with at most.
MaxOpts == 2

\* How many goroutines share the client.
NumCallers == 2

\* How many times WithAPIKey is applied to build one context.
MaxKeys == 2

\* How many times GetBody is invoked on one request.
MaxGetBody == 2

\* Response bodies are as long as maxErrorBodyBytes give or take LenSlack
\* bytes, or 2000 bytes.
LenSlack == 1

----------------------------------------------------------------------------
(* Program constants. *)

defaultNum == 10
defaultPage == 1
maxNum == 100
maxErrorBodyBytes == 1024
maxResponseBytes == 10 * 1024 * 1024
defaultGL == "us"
defaultHL == "en"
defaultBaseURL == "https://google.serper.dev"

----------------------------------------------------------------------------
(* The inputs. *)

QValues == {"", "golang"}
NumValues == ((0 - NumSlack)..NumSlack) \cup ((maxNum + 1 - NumSlack)..(maxNum + NumSlack)) \cup {50}
GLValues == {"", "de"}
HLValues == {"", "fr"}
LocationValues == {"", "New York"}
PageValues == (0 - NumSlack)..(NumSlack + 2)

\* type SearchRequest struct
SearchRequest ==
    [Q : QValues, Num : NumValues, GL : GLValues, HL : HLValues,
     Location : LocationValues, Page : PageValues]

----------------------------------------------------------------------------
(* serper/types.go: the request model. *)

\* A defaulting step with an ordering slip: the language falls back to the
\* country code, read before the country code has received its default.
SetDefaultsLangFromCountry(r) ==
    LET r1 == IF r.Num = 0 THEN [r EXCEPT !.Num = defaultNum] ELSE r
        r2 == IF r1.HL = "" THEN [r1 EXCEPT !.HL = r1.GL] ELSE r1
        r3 == IF r2.GL = "" THEN [r2 EXCEPT !.GL = defaultGL] ELSE r2
        r4 == IF r3.Page = 0 THEN [r3 EXCEPT !.Page = defaultPage] ELSE r3
    IN r4

\* A defaulting step that treats every Num below 1 and Page below 1 as unset.
SetDefaultsClamping(r) ==
    LET r1 == IF r.Num <= 0 THEN [r EXCEPT !.Num = defaultNum] ELSE r
        r2 == IF r1.GL = "" THEN [r1 EXCEPT !.GL = defaultGL] ELSE r1
        r3 == IF r2.HL = "" THEN [r2 EXCEPT !.HL = defaultHL] ELSE r2
        r4 == IF r3.Page <= 0 THEN [r3 EXCEPT !.Page = defaultPage] ELSE r3
    IN r4

\* A defaulting step that forgets the page.
SetDefaultsNoPage(r) ==
    LET r1 == IF r.Num = 0 THEN [r EXCEPT !.Num = defaultNum] ELSE r
        r2 == IF r1.GL = "" THEN [r1 EXCEPT !.GL = defaultGL] ELSE r1
        r3 == IF r2.HL = "" THEN [r2 EXCEPT !.HL = defaultHL] ELSE r2
    IN r3

\* func (r *SearchRequest) SetDefaults(): the value of *r afterwards.
SetDefaults(r) ==
    LET r1 == IF r.Num = 0 THEN [r EXCEPT !.Num = defaultNum] ELSE r
        r2 == IF r1.GL = "" THEN [r1 EXCEPT !.GL = defaultGL] ELSE r1
        r3 == IF r2.HL = "" THEN [r2 EXCEPT !.HL = defaultHL] ELSE r2
        r4 == IF r3.Page = 0 THEN [r3 EXCEPT !.Page = defaultPage] ELSE r3
    IN r4

\* The messages of Validate's errors.
errQuery == "query (q) is required"
errNum == "num must be between 1 and 100"
errPage == "page must be non-negative"

\* A Validate that checks the query alone.
ValidateQueryOnly(r) == IF r.Q = "" THEN errQuery ELSE Nil

\* func (r *SearchRequest) Validate() error: Nil or the error's message.
Validate(r) ==
    IF r.Q = "" THEN errQuery
    ELSE IF r.Num < 0 \/ r.Num > maxNum THEN errNum
    ELSE IF r.Page < 0 THEN errPage
    ELSE Nil

\* strings.Contains(strings.ToLower(msg), word) for the messages above.
Mentions(msg, word) ==
    \/ msg = errQuery /\ word \in {"query", "q", "required"}
    \/ msg = errNum /\ word \in {"num", "between", "1", "100"}
    \/ msg = errPage /\ word \in {"page", "non-negative"}

----------------------------------------------------------------------------
(* serper/client.go: the client. *)

\* A context: the API key override it carries ("": none), whether it is
\* already cancelled, and its deadline.
Background == [apiKey |-> "", cancelled |-> FALSE, deadline |-> "none"]

\* ctx, cancel := context.WithCancel(c); cancel()
Cancelled(c) == [c EXCEPT !.cancelled = TRUE]

\* A WithAPIKey that leaves a context alone once it carries an override.
WithAPIKeyFirstWins(c, key) ==
    IF key = "" \/ c.apiKey # "" THEN c ELSE [c EXCEPT !.apiKey = key]

\* A WithAPIKey that stores whatever key it is given.
WithAPIKeyStoresEmpty(c, key) == [c EXCEPT !.apiKey = key]

\* func WithAPIKey(ctx, key) context.Context
WithAPIKey(c, key) == IF key = "" THEN c ELSE [c EXCEPT !.apiKey = key]

CtxValues == {Background, WithAPIKey(Background, "tenant-key"), Cancelled(Background)}

\* The fields of a SearchRequest in the order json.Marshal writes them.
fieldOrder == <<"q", "num", "gl", "hl", "location", "page">>

\* The bytes of the JSON object b as json.Marshal writes them, one element
\* per member.
jsonBytes(b) ==
    LET ks == SelectSeq(fieldOrder, LAMBDA k : k \in DOMAIN b)
    IN [i \in 1..Len(ks) |-> [key |-> ks[i], value |-> b[ks[i]]]]

\* bytes.NewReader(data): a reader at the start of data.
NewReader(data) == [data |-> data, pos |-> 0]

\* A GetBody that hands out the request's Body itself.
GetBodySameReader(r) == readers[1]

\* req.GetBody(): io.NopCloser(bytes.NewReader(jsonBody)) for the request r
\* that doRequest built.
GetBody(r) == NewReader(jsonBytes(r.body))

\* A client that keeps no per-call key: every request carries its own.
getAPIKeyOfClient(c, cx) == c.apiKey

\* func (c *Client) getAPIKey(ctx) string
getAPIKey(c, cx) == IF cx.apiKey # "" THEN cx.apiKey ELSE c.apiKey

\* The keys written for a SearchRequest whose Location is not tagged
\* omitempty.
jsonKeysWithLocation(r) ==
    {"q", "location"} \cup (IF r.Num # 0 THEN {"num"} ELSE {})
                      \cup (IF r.GL # "" THEN {"gl"} ELSE {})
                      \cup (IF r.HL # "" THEN {"hl"} ELSE {})
                      \cup (IF r.Page # 0 THEN {"page"} ELSE {})

\* The keys json.Marshal writes for a SearchRequest: q always, the others
\* (tagged omitempty) only when non-zero or non-empty.
jsonKeys(r) ==
    {"q"} \cup (IF r.Num # 0 THEN {"num"} ELSE {})
          \cup (IF r.GL # "" THEN {"gl"} ELSE {})
          \cup (IF r.HL # "" THEN {"hl"} ELSE {})
          \cup (IF r.Location # "" THEN {"location"} ELSE {})
          \cup (IF r.Page # 0 THEN {"page"} ELSE {})

\* json.Marshal(reqBody): the JSON object as a function from keys to values.
Marshal(r) ==
    [k \in jsonKeys(r) |->
        CASE k = "q" -> r.Q
          [] k = "num" -> r.Num
          [] k = "gl" -> r.GL
          [] k = "hl" -> r.HL
          [] k = "location" -> r.Location
          [] k = "page" -> r.Page]

\* prepareRequest that applies the defaults to the caller's object itself
\* and hands that same object on.
prepareRequestInPlace(r) ==
    LET d == SetDefaults(r)
    IN [caller |-> d,
        prepared |-> IF Validate(d) = Nil THEN d ELSE None,
        err |-> Validate(d)]

\* prepareRequest that forgets to validate the copy.
prepareRequestNoValidate(r) ==
    [caller |-> r, prepared |-> SetDefaults(r), err |-> Nil]

\* func prepareRequest(req *SearchRequest) (*SearchRequest, error):
\* caller is *req afterwards, prepared is the returned copy.
prepareRequest(r) ==
    LET cp == SetDefaults(r)
    IN [caller |-> r,
        prepared |-> IF Validate(cp) = Nil THEN cp ELSE None,
        err |-> Validate(cp)]

----------------------------------------------------------------------------
(* The constructor. *)

\* The API keys New is called with.
APIKeyValues == {"", "my-api-key"}

\* The base URLs WithBaseURL is called with.
BaseURLValues ==
    {"https://example.com", "://bad", "", "/api", "example.com", "localhost:8080"}

\* The characters of the URLs of the model (Go strings are byte sequences).
chars(u) ==
    CASE u = "" -> <<>>
      [] u = "://bad" -> <<":", "/", "/", "b", "a", "d">>
      [] u = "/api" -> <<"/", "a", "p", "i">>
      [] u = "localhost:8080" ->
            <<"l", "o", "c", "a", "l", "h", "o", "s", "t", ":", "8", "0", "8", "0">>
      [] u = "example.com" -> <<"e", "x", "a", "m", "p", "l", "e", ".", "c", "o", "m">>
      [] u = "https://example.com" ->
            <<"h", "t", "t", "p", "s", ":", "/", "/",
              "e", "x", "a", "m", "p", "l", "e", ".", "c", "o", "m">>
      [] u = "https://google.serper.dev" ->
            <<"h", "t", "t", "p", "s", ":", "/", "/",
              "g", "o", "o", "g", "l", "e", ".", "s", "e", "r", "p", "e", "r", ".",
              "d", "e", "v">>

Letters ==
    {"a", "b", "c", "d", "e", "f", "g", "h", "i", "j", "k", "l", "m",
     "n", "o", "p", "q", "r", "s", "t", "u", "v", "w", "x", "y", "z"}

Digits == {"0", "1", "2", "3", "4", "5", "6", "7", "8", "9"}

\* net/url getScheme from position i on: letters go on; digits, "+", "-" and
\* "." go on except in first position; ":" ends the scheme, and is an error
\* in first position; anything else, or the end of the string, means there
\* is no scheme. The result is the length of the scheme, 0 for none, or -1
\* for "missing protocol scheme".
RECURSIVE getScheme(_, _)
getScheme(cs, i) ==
    IF i > Len(cs) THEN 0
    ELSE IF cs[i] \in Letters THEN getScheme(cs, i + 1)
    ELSE IF cs[i] \in Digits \cup {"+", "-", "."} THEN (IF i = 1 THEN 0 ELSE getScheme(cs, i + 1))
    ELSE IF cs[i] = ":" THEN (IF i = 1 THEN -1 ELSE i - 1)
    ELSE 0

\* url.ParseRequestURI(rawURL): Nil or the error. The empty string is an
\* error; so is a string without a scheme that does not start with "/"; a
\* string that starts with "/" is taken as an absolute path, and one with a
\* scheme and no "/" after it as an opaque URL.
ParseRequestURI(u) ==
    LET cs == chars(u)
        n == getScheme(cs, 1)
        rest == IF n > 0 THEN SubSeq(cs, n + 2, Len(cs)) ELSE cs
    IN IF cs = <<>> THEN "empty url"
       ELSE IF n < 0 THEN "missing protocol scheme"
       ELSE IF rest # <<>> /\ rest[1] = "/" THEN Nil
       ELSE IF n > 0 THEN Nil
       ELSE "invalid URI for request"

\* func WithBaseURL(url string) Option
WithBaseURL(url) == [option |-> "WithBaseURL", url |-> url]

\* func WithDoer(d Doer) Option
WithDoer(d) == [option |-> "WithDoer", doer |-> d]

\* The options New is called with.
OptionValues == {WithBaseURL(u) : u \in BaseURLValues} \cup {WithDoer("mockDoer")}

\* o(c): what the option does to the client under construction.
applyOption(o, c) ==
    IF o.option = "WithBaseURL"
        THEN [c EXCEPT !.baseURL = o.url]
        ELSE [c EXCEPT !.doer = o.doer]

\* for _, o := range opts { o(c) }
RECURSIVE applyOptions(_, _)
applyOptions(opts, c) ==
    IF opts = <<>> THEN c ELSE applyOptions(Tail(opts), applyOption(Head(opts), c))

errEmptyKey == "serper: API key must not be empty"
errBaseURL == "serper: invalid base URL"

\* A New that constructs a client whatever the API key.
NewNoKeyCheck(apiKey, opts) ==
    LET c == applyOptions(opts, [apiKey |-> apiKey, baseURL |-> defaultBaseURL,
                                 doer |-> "http.Client"])
    IN IF ParseRequestURI(c.baseURL) # Nil
           THEN [client |-> None, err |-> errBaseURL]
           ELSE [client |-> c, err |-> Nil]

\* A New that checks the base URL each time an option has been applied.
NewCheckingEachOption(apiKey, opts) ==
    LET c0 == [apiKey |-> apiKey, baseURL |-> defaultBaseURL, doer |-> "http.Client"]
        c == applyOptions(opts, c0)
    IN IF apiKey = ""
           THEN [client |-> None, err |-> errEmptyKey]
       ELSE IF \E i \in 1..Len(opts) :
                  ParseRequestURI(applyOptions(SubSeq(opts, 1, i), c0).baseURL) # Nil
           THEN [client |-> None, err |-> errBaseURL]
           ELSE [client |-> c, err |-> Nil]

\* func New(apiKey string, opts ...Option) (*Client, error)
New(apiKey, opts) ==
    IF apiKey = ""
        THEN [client |-> None, err |-> errEmptyKey]
        ELSE LET c == applyOptions(opts, [apiKey |-> apiKey, baseURL |-> defaultBaseURL,
                                          doer |-> "http.Client"])
             IN IF ParseRequestURI(c.baseURL) # Nil
                    THEN [client |-> None, err |-> errBaseURL]
                    ELSE [client |-> c, err |-> Nil]

----------------------------------------------------------------------------
(* The initial state: a constructed client, a caller holding any request. *)

\* The goroutines that share the client.
Callers == 1..NumCallers

\* A goroutine that is not in a call.
IdleCall ==
    [pc |-> "idle", op |-> "none", ctx |-> Background, arg |-> None, sent |-> None,
     reply |-> None, result |-> None]

Init ==
    /\ client = New("my-api-key", <<>>).client
    /\ req \in SearchRequest
    /\ pc = "idle"
    /\ op = "none"
    /\ ctx = Background
    /\ before = None
    /\ prepared = None
    /\ sent = None
    /\ doCalls = 0
    /\ reply = None
    /\ result = None
    /\ trace = <<>>
    /\ nread = 0
    /\ readers = <<>>
    /\ keys = <<>>
    /\ nw = None
    /\ calls = [k \in Callers |-> IdleCall]
    /\ sdHist = <<req>>
    /\ validated = None

clientVars == <<client, pc, op, ctx, before, prepared, sent, doCalls, reply, result,
                trace, nread, readers, keys, nw, calls>>

----------------------------------------------------------------------------
(* SpecRequest: the exported methods of SearchRequest called directly. *)

\* r.SetDefaults() on the caller's own request: it is changed in place.
CallSetDefaults ==
    /\ Len(sdHist) <= MaxSetDefaults
    /\ req' = SetDefaults(req)
    /\ sdHist' = Append(sdHist, req')
    /\ UNCHANGED <<clientVars, validated>>

\* err := r.Validate() on the caller's own request.
CallValidate ==
    /\ validated' = [r |-> req, err |-> Validate(req)]
    /\ UNCHANGED <<clientVars, req, sdHist>>

NextRequest ==
    \/ CallSetDefaults
    \/ CallValidate

SpecRequest == Init /\ [][NextRequest]_vars

----------------------------------------------------------------------------
(* The transport: what doer.Do may return. *)

\* Response bodies by what the client can tell apart:
\*   json       well-formed JSON matching the vertical's schema
\*   mistyped   well-formed, harmless JSON that does not fit the schema
\*   unsafe     well-formed JSON that secval.ValidateJSON rejects
\*   malformed  not JSON at all
\*   unreadable reading resp.Body fails
BodyKinds == {"json", "mistyped", "unsafe", "malformed", "unreadable"}

StatusValues == {100, 200, 204, 301, 399, 400, 401, 403, 404, 429, 500, 502, 503, 504}

DoErrors == {"connection refused", "context canceled"}

\* The lengths, in bytes, of the bodies the upstream sends.
BodyLens ==
    ((maxErrorBodyBytes - LenSlack)..(maxErrorBodyBytes + LenSlack)) \cup {2000}

DoReplies ==
    [err : DoErrors]
    \cup [err : {Nil}, status : StatusValues, body : BodyKinds \ {"unreadable"},
          len : BodyLens]
    \cup [err : {Nil}, status : StatusValues, body : {"unreadable"}, len : {2000}]

\* What doer.Do may return for the request r: a transport honours the
\* request's context and fails with the context's error when it is already
\* cancelled (*http.Client, and contextAwareDoer of the tests).
DoRepliesFor(r) ==
    IF r.ctx.cancelled THEN {[err |-> "context canceled"]} ELSE DoReplies

\* secval.ValidateJSON(body) == nil
secvalAccepts(body) == body \in {"json", "mistyped"}

\* json.Unmarshal(body, respBody) == nil, for a body secval accepted
unmarshals(body) == body = "json"

\* The type of the response value each endpoint decodes into.
respType(endpoint) ==
    CASE endpoint = "/search" -> "SearchResponse"
      [] endpoint = "/images" -> "ImagesResponse"
      [] endpoint = "/news" -> "NewsResponse"
      [] endpoint = "/places" -> "PlacesResponse"
      [] endpoint = "/scholar" -> "ScholarResponse"

----------------------------------------------------------------------------
(* doRequest. *)

\* A doRequest that builds the request with http.NewRequest: it carries the
\* background context, not the caller's.
buildRequestNoContext(c, cx, endpoint, reqBody) ==
    [method |-> "POST",
     url |-> c.baseURL \o endpoint,
     header |-> [ContentType |-> "application/json", XAPIKEY |-> getAPIKey(c, cx)],
     body |-> Marshal(reqBody),
     ctx |-> Background]

\* doRequest up to the call of c.doer.Do(req): the *http.Request it builds.
buildRequest(c, cx, endpoint, reqBody) ==
    [method |-> "POST",
     url |-> c.baseURL \o endpoint,
     header |-> [ContentType |-> "application/json", XAPIKEY |-> getAPIKey(c, cx)],
     body |-> Marshal(reqBody),
     ctx |-> cx]

\* A status switch that files 503 under the default case.
classifyMissing503(status) ==
    CASE status = 400 -> "ValidationError"
      [] status = 401 -> "UnauthorizedError"
      [] status = 404 -> "NotFoundError"
      [] status = 429 -> "RateLimitError"
      [] status = 502 -> "DependencyError"
      [] OTHER -> "InternalError"

\* The switch on resp.StatusCode: the chassis error constructor it picks.
classify(status) ==
    CASE status = 400 -> "ValidationError"
      [] status = 401 -> "UnauthorizedError"
      [] status = 404 -> "NotFoundError"
      [] status = 429 -> "RateLimitError"
      [] status \in {502, 503} -> "DependencyError"
      [] OTHER -> "InternalError"

\* An error value: its Go type, its message's fixed text, the HTTP status in
\* the message (0: none) and the error or body text it carries.
Error(type, msg, status, detail) ==
    [type |-> type, msg |-> msg, status |-> status, detail |-> detail]

\* A nil error.
NoError == [type |-> "nil"]

\* err.Error() of an error made with fmt.Errorf("<msg>: %w", cause) or
\* chassiserrors.ValidationError(fmt.Sprintf("<msg>: %v", cause)); an error
\* without a cause reads as its message.
errorString(e) == IF e.detail = "" THEN e.msg ELSE e.msg \o ": " \o e.detail

\* A read without the limit.
readBodyUnlimited(n) == n

\* io.ReadAll(io.LimitReader(resp.Body, maxResponseBytes)): how many bytes
\* of a body of n bytes are read.
readBody(n) == IF n > maxResponseBytes THEN maxResponseBytes ELSE n

\* The body doRequest goes on with, read through the limit: a JSON document
\* cut short at maxResponseBytes is not a JSON document, and a body that is
\* not JSON is taken not to become JSON by being cut.
bodyRead(rep) ==
    IF rep.len > readBody(rep.len) /\ rep.body # "unreadable"
        THEN "malformed"
        ELSE rep.body

\* A truncation that also cuts a body of exactly maxErrorBodyBytes bytes.
errorBodyOffByOne(n) ==
    IF n >= maxErrorBodyBytes
        THEN [bytes |-> maxErrorBodyBytes - 1, marker |-> TRUE]
        ELSE [bytes |-> n, marker |-> FALSE]

\* The body text in an error message, for a body of n bytes read: how many
\* of its leading bytes the message carries and whether "...(truncated)"
\* follows them.
errorBody(n) ==
    IF n > maxErrorBodyBytes
        THEN [bytes |-> maxErrorBodyBytes, marker |-> TRUE]
        ELSE [bytes |-> n, marker |-> FALSE]

\* The error doRequest returns for a response with status >= 400:
\* chassiserrors.<Kind>("serper: HTTP <status>: <msg>").
HTTPError(rep) ==
    [type |-> classify(rep.status), msg |-> "serper: HTTP", status |-> rep.status,
     detail |-> rep.body, text |-> errorBody(readBody(rep.len))]

\* A doRequest that closes the body by hand at its end instead of deferring
\* the close.
closeOnSuccessOnly(tr, ok) == IF ok THEN Append(tr, "close") ELSE tr

\* defer resp.Body.Close(): tr is what doRequest did since doer.Do returned
\* the response, ok whether it returns nil.
deferredClose(tr, ok) == Append(tr, "close")

\* doRequest after doer.Do with every status outside 200..299 taken as a
\* failure.
afterDoStrict(rep) ==
    IF rep.err # Nil
        THEN [err |-> Error("error", "serper: do request", 0, rep.err), decoded |-> FALSE,
              trace |-> <<>>, read |-> 0]
    ELSE IF rep.body = "unreadable"
        THEN [err |-> Error("error", "serper: read response", 0, "read failed"),
              decoded |-> FALSE, trace |-> deferredClose(<<"read">>, FALSE),
              read |-> readBody(rep.len)]
    ELSE IF rep.status < 200 \/ rep.status > 299
        THEN [err |-> HTTPError(rep), decoded |-> FALSE,
              trace |-> deferredClose(<<"read", "classify">>, FALSE),
              read |-> readBody(rep.len)]
    ELSE IF ~secvalAccepts(bodyRead(rep))
        THEN [err |-> Error("ValidationError", "serper: unsafe response body", 0, bodyRead(rep)),
              decoded |-> FALSE, trace |-> deferredClose(<<"read", "secval">>, FALSE),
              read |-> readBody(rep.len)]
    ELSE IF ~unmarshals(bodyRead(rep))
        THEN [err |-> Error("error", "serper: unmarshal response", 0, bodyRead(rep)),
              decoded |-> FALSE,
              trace |-> deferredClose(<<"read", "secval", "unmarshal">>, FALSE),
              read |-> readBody(rep.len)]
    ELSE [err |-> NoError, decoded |-> TRUE,
          trace |-> deferredClose(<<"read", "secval", "unmarshal">>, TRUE),
          read |-> readBody(rep.len)]

\* doRequest after doer.Do without the security check: the body goes
\* straight to the decoder.
afterDoNoSecval(rep) ==
    IF rep.err # Nil
        THEN [err |-> Error("error", "serper: do request", 0, rep.err), decoded |-> FALSE,
              trace |-> <<>>, read |-> 0]
    ELSE IF rep.body = "unreadable"
        THEN [err |-> Error("error", "serper: read response", 0, "read failed"),
              decoded |-> FALSE, trace |-> deferredClose(<<"read">>, FALSE),
              read |-> readBody(rep.len)]
    ELSE IF rep.status >= 400
        THEN [err |-> HTTPError(rep), decoded |-> FALSE,
              trace |-> deferredClose(<<"read", "classify">>, FALSE),
              read |-> readBody(rep.len)]
    ELSE IF bodyRead(rep) \in {"malformed", "mistyped"}
        THEN [err |-> Error("error", "serper: unmarshal response", 0, bodyRead(rep)),
              decoded |-> FALSE, trace |-> deferredClose(<<"read", "unmarshal">>, FALSE),
              read |-> readBody(rep.len)]
    ELSE [err |-> NoError, decoded |-> TRUE,
          trace |-> deferredClose(<<"read", "unmarshal">>, TRUE),
          read |-> readBody(rep.len)]

\* doRequest after doer.Do that reports a failed dispatch without its cause.
afterDoOpaque(rep) ==
    IF rep.err # Nil
        THEN [err |-> Error("error", "serper: do request", 0, ""), decoded |-> FALSE,
              trace |-> <<>>, read |-> 0]
    ELSE IF rep.body = "unreadable"
        THEN [err |-> Error("error", "serper: read response", 0, "read failed"),
              decoded |-> FALSE, trace |-> deferredClose(<<"read">>, FALSE),
              read |-> readBody(rep.len)]
    ELSE IF rep.status >= 400
        THEN [err |-> HTTPError(rep), decoded |-> FALSE,
              trace |-> deferredClose(<<"read", "classify">>, FALSE),
              read |-> readBody(rep.len)]
    ELSE IF ~secvalAccepts(bodyRead(rep))
        THEN [err |-> Error("ValidationError", "serper: unsafe response body", 0, bodyRead(rep)),
              decoded |-> FALSE, trace |-> deferredClose(<<"read", "secval">>, FALSE),
              read |-> readBody(rep.len)]
    ELSE IF ~unmarshals(bodyRead(rep))
        THEN [err |-> Error("error", "serper: unmarshal response", 0, bodyRead(rep)),
              decoded |-> FALSE,
              trace |-> deferredClose(<<"read", "secval", "unmarshal">>, FALSE),
              read |-> readBody(rep.len)]
    ELSE [err |-> NoError, decoded |-> TRUE,
          trace |-> deferredClose(<<"read", "secval", "unmarshal">>, TRUE),
          read |-> readBody(rep.len)]

\* doRequest from the return of c.doer.Do(req) on: the error it returns,
\* whether respBody was filled in, how many bytes of the body it read at
\* most, and what it did with the response: "read"
\* (io.ReadAll), "classify" (the status switch), "secval"
\* (secval.ValidateJSON), "unmarshal" (json.Unmarshal), "close"
\* (resp.Body.Close).
afterDo(rep) ==
    IF rep.err # Nil
        THEN [err |-> Error("error", "serper: do request", 0, rep.err), decoded |-> FALSE,
              trace |-> <<>>, read |-> 0]
    ELSE IF rep.body = "unreadable"
        THEN [err |-> Error("error", "serper: read response", 0, "read failed"),
              decoded |-> FALSE, trace |-> deferredClose(<<"read">>, FALSE),
              read |-> readBody(rep.len)]
    ELSE IF rep.status >= 400
        THEN [err |-> HTTPError(rep), decoded |-> FALSE,
              trace |-> deferredClose(<<"read", "classify">>, FALSE),
              read |-> readBody(rep.len)]
    ELSE IF ~secvalAccepts(bodyRead(rep))
        THEN [err |-> Error("ValidationError", "serper: unsafe response body", 0, bodyRead(rep)),
              decoded |-> FALSE, trace |-> deferredClose(<<"read", "secval">>, FALSE),
              read |-> readBody(rep.len)]
    ELSE IF ~unmarshals(bodyRead(rep))
        THEN [err |-> Error("error", "serper: unmarshal response", 0, bodyRead(rep)),
              decoded |-> FALSE,
              trace |-> deferredClose(<<"read", "secval", "unmarshal">>, FALSE),
              read |-> readBody(rep.len)]
    ELSE [err |-> NoError, decoded |-> TRUE,
          trace |-> deferredClose(<<"read", "secval", "unmarshal">>, TRUE),
          read |-> readBody(rep.len)]

----------------------------------------------------------------------------
(* The operations of the client. *)

\* A vertical operation from its entry to its first return or to the call
\* of doer.Do: prepareRequest, then doRequest up to the dispatch. r is the
\* request passed in; callerOwns says whether it is the caller's object (req)
\* or one the client made itself.
Vertical(name, endpoint, cx, r, callerOwns) ==
    LET p == prepareRequest(r)
    IN /\ pc = "idle"
       /\ op' = name
       /\ ctx' = cx
       /\ before' = r
       /\ req' = IF callerOwns THEN p.caller ELSE req
       /\ reply' = None
       /\ trace' = <<>>
       /\ IF p.err # Nil
            THEN /\ pc' = "returned"
                 /\ prepared' = None
                 /\ sent' = None
                 /\ doCalls' = 0
                 /\ result' = [resp |-> None, err |-> Error("error", p.err, 0, "")]
            ELSE /\ pc' = "inDo"
                 /\ prepared' = p.prepared
                 /\ sent' = buildRequest(client, cx, endpoint, p.prepared)
                 /\ doCalls' = 1
                 /\ result' = None
       /\ nread' = 0
       /\ readers' = IF p.err # Nil THEN <<>> ELSE <<NewReader(jsonBytes(Marshal(p.prepared)))>>
       /\ UNCHANGED <<client, keys, sdHist, validated, nw, calls>>

\* func (c *Client) Search(ctx, req)
Search == \E cx \in CtxValues : Vertical("Search", "/search", cx, req, TRUE)

\* An Images that posts to the web search endpoint.
ImagesToSearch == \E cx \in CtxValues : Vertical("Images", "/search", cx, req, TRUE)

\* func (c *Client) Images(ctx, req)
Images == \E cx \in CtxValues : Vertical("Images", "/images", cx, req, TRUE)

\* func (c *Client) News(ctx, req)
News == \E cx \in CtxValues : Vertical("News", "/news", cx, req, TRUE)

\* func (c *Client) Places(ctx, req)
Places == \E cx \in CtxValues : Vertical("Places", "/places", cx, req, TRUE)

\* func (c *Client) Scholar(ctx, req)
Scholar == \E cx \in CtxValues : Vertical("Scholar", "/scholar", cx, req, TRUE)

\* The request CheckConnectivity makes: &SearchRequest{Q: "test", Num: 1}.
connectivityRequest ==
    [Q |-> "test", Num |-> 1, GL |-> "", HL |-> "", Location |-> "", Page |-> 0]

\* func (c *Client) CheckConnectivity(ctx) error: a Search with a request of
\* its own, of which only the error is returned.
CheckConnectivity ==
    \E cx \in CtxValues :
        Vertical("CheckConnectivity", "/search", cx, connectivityRequest, FALSE)

\* The endpoint doRequest was called with.
endpointOf(name) ==
    CASE name = "Search" -> "/search"
      [] name = "Images" -> "/images"
      [] name = "News" -> "/news"
      [] name = "Places" -> "/places"
      [] name = "Scholar" -> "/scholar"
      [] name = "CheckConnectivity" -> "/search"

\* A CheckConnectivity that reports success whatever the search returned.
returnedSwallowing(name, a) ==
    IF name = "CheckConnectivity"
        THEN [resp |-> None, err |-> NoError]
    ELSE IF a.err # NoError
        THEN [resp |-> None, err |-> a.err]
        ELSE [resp |-> [type |-> respType(endpointOf(name))], err |-> NoError]

\* Operations that return the response they were decoding into together
\* with the error.
returnedBoth(name, a) ==
    IF name = "CheckConnectivity"
        THEN [resp |-> None, err |-> a.err]
        ELSE [resp |-> [type |-> respType(endpointOf(name))], err |-> a.err]

\* What the operation returns once doRequest has returned err: the verticals
\* a response or the error, CheckConnectivity the error alone.
returned(name, a) ==
    IF a.err # NoError \/ name = "CheckConnectivity"
        THEN [resp |-> None, err |-> a.err]
        ELSE [resp |-> [type |-> respType(endpointOf(name))], err |-> NoError]

\* A client that dispatches again, by itself, when the upstream answers 429
\* or 503.
DoReturnsRetrying ==
    /\ pc = "inDo"
    /\ \E rep \in DoRepliesFor(sent) :
         LET a == afterDo(rep)
         IN /\ reply' = rep
            /\ trace' = a.trace
            /\ nread' = a.read
            /\ IF rep.err = Nil /\ rep.status \in {429, 503} /\ doCalls < 2
                 THEN /\ doCalls' = doCalls + 1
                      /\ UNCHANGED <<pc, result>>
                 ELSE /\ pc' = "returned"
                      /\ doCalls' = doCalls
                      /\ result' = returned(op, a)
    /\ UNCHANGED <<client, req, op, ctx, before, prepared, sent, readers, keys,
                   sdHist, validated, nw, calls>>

\* doer.Do returns: the rest of doRequest, and the operation's return.
DoReturns ==
    /\ pc = "inDo"
    /\ \E rep \in DoRepliesFor(sent) :
         LET a == afterDo(rep)
         IN /\ reply' = rep
            /\ trace' = a.trace
            /\ nread' = a.read
            /\ result' = returned(op, a)
    /\ pc' = "returned"
    /\ UNCHANGED <<client, req, op, ctx, before, prepared, sent, doCalls, readers, keys,
                   sdHist, validated, nw, calls>>

\* The caller takes the result and goes on; its request object stays as the
\* call left it.
Return ==
    /\ pc = "returned"
    /\ pc' = "idle"
    /\ op' = "none"
    /\ ctx' = Background
    /\ before' = None
    /\ prepared' = None
    /\ sent' = None
    /\ doCalls' = 0
    /\ reply' = None
    /\ result' = None
    /\ trace' = <<>>
    /\ nread' = 0
    /\ readers' = <<>>
    /\ keys' = <<>>
    /\ UNCHANGED <<client, req, sdHist, validated, nw, calls>>

Next ==
    \/ Search
    \/ Images
    \/ News
    \/ Places
    \/ Scholar
    \/ CheckConnectivity
    \/ DoReturns
    \/ Return

Spec == Init /\ [][Next]_vars

----------------------------------------------------------------------------
(* SpecConc: goroutines sharing one Client and one SearchRequest object. *)

\* The requests the goroutines share: one that needs every default, one that
\* fails validation, one with explicit values.
ConcRequests ==
    {[Q |-> "golang", Num |-> 0, GL |-> "", HL |-> "", Location |-> "", Page |-> 0],
     [Q |-> "", Num |-> 0, GL |-> "", HL |-> "", Location |-> "", Page |-> 0],
     [Q |-> "golang", Num |-> 50, GL |-> "de", HL |-> "fr", Location |-> "New York", Page |-> 2]}

\* The operations the goroutines call.
ConcOps == {"Search", "News"}

\* What doer.Do may return to a goroutine for the request r.
ConcRepliesFor(r) ==
    {rep \in DoRepliesFor(r) :
        rep.err = Nil =>
            /\ rep.status \in {200, 500}
            /\ rep.body \in {"json", "unsafe"}
            /\ rep.len = 2000}

\* Goroutine k calls a vertical with the shared request: prepareRequest, then
\* doRequest up to the dispatch. All of it reads the client's fields and the
\* request and writes only the call's own locals.
ConcCall(k) ==
    /\ calls[k].pc = "idle"
    /\ \E name \in ConcOps, cx \in CtxValues :
         LET p == prepareRequest(req)
             c == [IdleCall EXCEPT !.op = name, !.ctx = cx, !.arg = req]
         IN /\ req' = p.caller
            /\ calls' = [calls EXCEPT ![k] =
                  IF p.err # Nil
                      THEN [c EXCEPT !.pc = "returned",
                                     !.result = [resp |-> None,
                                                 err |-> Error("error", p.err, 0, "")]]
                      ELSE [c EXCEPT !.pc = "inDo",
                                     !.sent = buildRequest(client, cx, endpointOf(name),
                                                           p.prepared)]]
    /\ UNCHANGED <<client, pc, op, ctx, before, prepared, sent, doCalls, reply, result,
                   trace, nread, readers, keys, nw, sdHist, validated>>

\* doer.Do returns to goroutine k: the rest of doRequest, and the return.
ConcDoReturns(k) ==
    /\ calls[k].pc = "inDo"
    /\ \E rep \in ConcRepliesFor(calls[k].sent) :
         calls' = [calls EXCEPT ![k].pc = "returned",
                                ![k].reply = rep,
                                ![k].result = returned(calls[k].op, afterDo(rep))]
    /\ UNCHANGED <<client, req, pc, op, ctx, before, prepared, sent, doCalls, reply,
                   result, trace, nread, readers, keys, nw, sdHist, validated>>

\* Goroutine k takes its result and goes on.
ConcReturn(k) ==
    /\ calls[k].pc = "returned"
    /\ calls' = [calls EXCEPT ![k] = IdleCall]
    /\ UNCHANGED <<client, req, pc, op, ctx, before, prepared, sent, doCalls, reply,
                   result, trace, nread, readers, keys, nw, sdHist, validated>>

NextConc ==
    \E k \in Callers :
        \/ ConcCall(k)
        \/ ConcDoReturns(k)
        \/ ConcReturn(k)

InitConc ==
    /\ Init
    /\ req \in ConcRequests

SpecConc == InitConc /\ [][NextConc]_vars

----------------------------------------------------------------------------
(* SpecCtx: a program that constructs a client, derives contexts with       *)
(* WithAPIKey and calls every operation of the client on them.              *)

\* The keys WithAPIKey is called with.
KeyValues == {"", "tenant-key", "other-key"}

\* The option lists the client is constructed with.
CtxOptionLists ==
    {<<>>, <<WithDoer("mockDoer")>>, <<WithBaseURL("https://example.com")>>}

\* A key setter on the client, in place of the context.
ApplyWithAPIKeyToClient ==
    /\ pc = "idle"
    /\ Len(keys) < MaxKeys
    /\ \E key \in KeyValues :
         /\ client' = IF key = "" THEN client ELSE [client EXCEPT !.apiKey = key]
         /\ keys' = Append(keys, key)
    /\ UNCHANGED <<req, pc, op, ctx, before, prepared, sent, doCalls, reply, result,
                   trace, nread, readers, nw, calls, sdHist, validated>>

\* ctx = serper.WithAPIKey(ctx, key)
ApplyWithAPIKey ==
    /\ pc = "idle"
    /\ Len(keys) < MaxKeys
    /\ \E key \in KeyValues :
         /\ ctx' = WithAPIKey(ctx, key)
         /\ keys' = Append(keys, key)
    /\ UNCHANGED <<client, req, pc, op, before, prepared, sent, doCalls, reply, result,
                   trace, nread, readers, nw, calls, sdHist, validated>>

\* c.Search(ctx, req), c.Images(ctx, req), ... on the context built so far.
CtxCall ==
    \E name \in {"Search", "Images", "News", "Places", "Scholar"} :
        Vertical(name, endpointOf(name), ctx, req, TRUE)

\* c.CheckConnectivity(ctx) on the context built so far.
CtxCheckConnectivity ==
    Vertical("CheckConnectivity", "/search", ctx, connectivityRequest, FALSE)

NextCtx ==
    \/ ApplyWithAPIKey
    \/ CtxCall
    \/ CtxCheckConnectivity
    \/ DoReturns
    \/ Return

\* c, err := serper.New("my-api-key", opts...) has returned a client.
InitCtx ==
    /\ \E opts \in CtxOptionLists :
         LET r == New("my-api-key", opts)
         IN /\ client = r.client
            /\ nw = [apiKey |-> "my-api-key", opts |-> opts, client |-> r.client,
                      err |-> r.err]
    /\ req \in {[Q |-> "golang", Num |-> 0, GL |-> "", HL |-> "",
                  Location |-> "New York", Page |-> 0],
                 [Q |-> "", Num |-> 0, GL |-> "", HL |-> "", Location |-> "", Page |-> 0]}
    /\ pc = "idle"
    /\ op = "none"
    /\ ctx = Background
    /\ before = None
    /\ prepared = None
    /\ sent = None
    /\ doCalls = 0
    /\ reply = None
    /\ result = None
    /\ trace = <<>>
    /\ nread = 0
    /\ readers = <<>>
    /\ keys = <<>>
    /\ calls = [k \in Callers |-> IdleCall]
    /\ sdHist = <<req>>
    /\ validated = None

SpecCtx == InitCtx /\ [][NextCtx]_vars

----------------------------------------------------------------------------
(* SpecBody: a transport, or retry middleware around it, reading the body   *)
(* of the request it was handed and replaying it through GetBody.           *)

\* The reader rd after a Read that asked for n bytes.
Read(rd, n) ==
    [rd EXCEPT !.pos = IF rd.pos + n > Len(rd.data) THEN Len(rd.data) ELSE rd.pos + n]

\* c.Search(context.Background(), req)
BodySearch == Vertical("Search", "/search", Background, req, TRUE)

\* The holder of the request reads on from one of its readers: one member,
\* or all that is left.
TransportRead ==
    /\ pc \in {"inDo", "returned"}
    /\ \E i \in DOMAIN readers :
         /\ readers[i].pos < Len(readers[i].data)
         /\ \E n \in {1, Len(readers[i].data)} :
              readers' = [readers EXCEPT ![i] = Read(readers[i], n)]
    /\ UNCHANGED <<client, req, pc, op, ctx, before, prepared, sent, doCalls, reply,
                   result, trace, nread, keys, nw, calls, sdHist, validated>>

\* The holder of the request invokes its GetBody.
TransportGetBody ==
    /\ pc \in {"inDo", "returned"}
    /\ sent # None
    /\ Len(readers) <= MaxGetBody
    /\ readers' = Append(readers, GetBody(sent))
    /\ UNCHANGED <<client, req, pc, op, ctx, before, prepared, sent, doCalls, reply,
                   result, trace, nread, keys, nw, calls, sdHist, validated>>

\* doer.Do returns one of replies: the rest of doRequest, and the return of
\* the operation.
DoReturnsWith(replies) ==
    /\ pc = "inDo"
    /\ \E rep \in replies :
         LET a == afterDo(rep)
         IN /\ reply' = rep
            /\ trace' = a.trace
            /\ nread' = a.read
            /\ result' = returned(op, a)
    /\ pc' = "returned"
    /\ UNCHANGED <<client, req, op, ctx, before, prepared, sent, doCalls, readers, keys,
                   sdHist, validated, nw, calls>>

\* doer.Do returns to the Search, with one of a few replies.
BodyDoReturns == DoReturnsWith(ConcRepliesFor(sent))

NextBody ==
    \/ BodySearch
    \/ TransportRead
    \/ TransportGetBody
    \/ BodyDoReturns

InitBody ==
    /\ Init
    /\ req = [Q |-> "golang", Num |-> 0, GL |-> "", HL |-> "", Location |-> "New York",
              Page |-> 0]

SpecBody == InitBody /\ [][NextBody]_vars

----------------------------------------------------------------------------
(* SpecBig: an upstream whose bodies are about as long as the read limit.   *)

\* The lengths of the bodies: maxResponseBytes give or take LenSlack bytes.
BigLens == (maxResponseBytes - LenSlack)..(maxResponseBytes + LenSlack)

BigReplies ==
    [err : {Nil}, status : {200, 301, 404, 500}, body : BodyKinds, len : BigLens]

\* c.Search(ctx, req), c.Images(ctx, req), ...
BigCall ==
    \E name \in {"Search", "Images", "News", "Places", "Scholar"} :
        Vertical(name, endpointOf(name), Background, req, TRUE)

\* doer.Do returns a response with a big body.
BigDoReturns == DoReturnsWith(BigReplies)

NextBig ==
    \/ BigCall
    \/ BigDoReturns
    \/ Return

SpecBig == InitBody /\ [][NextBig]_vars

----------------------------------------------------------------------------
(* SpecNew: a program constructing clients. *)

\* The option lists New is called with.
OptionLists == UNION {[1..n -> OptionValues] : n \in 0..MaxOpts}

\* c, err := serper.New(apiKey, opts...)
CallNew ==
    /\ \E apiKey \in APIKeyValues, opts \in OptionLists :
         LET r == New(apiKey, opts)
         IN nw' = [apiKey |-> apiKey, opts |-> opts, client |-> r.client, err |-> r.err]
    /\ UNCHANGED <<client, req, pc, op, ctx, before, prepared, sent, doCalls, reply,
                   result, trace, nread, readers, keys, calls, sdHist, validated>>

NextNew == CallNew

\* The program has constructed nothing yet; it makes no calls.
InitNew ==
    /\ Init
    /\ req = [Q |-> "golang", Num |-> 0, GL |-> "", HL |-> "", Location |-> "", Page |-> 0]

SpecNew == InitNew /\ [][NextNew]_vars

----------------------------------------------------------------------------
(* The claims. *)

\* The five vertical operations.
Verticals == {"Search", "Images", "News", "Places", "Scholar"}

\* A vertical operation has gone through doer.Do, and the response's body
\* was read.
BodyRead ==
    /\ pc = "returned"
    /\ op \in Verticals
    /\ reply # None
    /\ reply.err = Nil
    /\ reply.body # "unreadable"

\* C1: after a vertical operation has returned, whatever the outcome, every
\* field of the caller's SearchRequest has the value it had before the call;
\* the same holds while the call is blocked in the transport.
C1_CallerRequestUnchanged ==
    (pc # "idle" /\ op \in Verticals) => req = before

\* A call that succeeded although the caller had left Num, GL, HL and Page
\* unset: the defaults went to the prepared copy only.
C1_Witness ==
    /\ pc = "returned"
    /\ result.err = NoError
    /\ before.Num = 0 /\ before.GL = "" /\ before.HL = "" /\ before.Page = 0
    /\ prepared.Num = 10 /\ prepared.Page = 1
    /\ req.Num = 0

\* C2: a call whose defaulted copy fails validation returns that validation
\* error without ever invoking doer.Do; a call that does dispatch sends the
\* defaulted copy, which validation has accepted.
C2_ValidateBeforeDispatch ==
    pc # "idle" =>
        LET cp == SetDefaults(before)
        IN /\ Validate(cp) # Nil =>
                /\ pc = "returned"
                /\ doCalls = 0
                /\ sent = None
                /\ result.resp = None
                /\ result.err.type = "error" /\ result.err.msg = Validate(cp)
           /\ doCalls > 0 =>
                /\ Validate(cp) = Nil
                /\ sent # None
                /\ sent.body = Marshal(cp)

\* A call with a result count above the limit has returned its validation
\* error, and the transport was never invoked.
C2_Witness ==
    /\ pc = "returned"
    /\ before.Q # "" /\ before.Num > 100
    /\ result.err.msg = errNum
    /\ doCalls = 0

\* C3: for a request with a non-empty query and a valid page, Validate
\* succeeds exactly when Num is in 1..100, and every other Num is rejected
\* with an error that mentions "num".
C3_NumAcceptedIffInRange ==
    (validated # None /\ validated.r.Q # "" /\ validated.r.Page >= 1) =>
        /\ (validated.err = Nil) <=> (validated.r.Num \in 1..100)
        /\ validated.r.Num \notin 1..100 => Mentions(validated.err, "num")

\* C4: for a request with a non-empty query and a valid result count,
\* Validate succeeds exactly when Page >= 1, and every other Page is rejected
\* with an error that mentions "page".
C4_PageAcceptedIffPositive ==
    (validated # None /\ validated.r.Q # "" /\ validated.r.Num \in 1..100) =>
        /\ (validated.err = Nil) <=> (validated.r.Page >= 1)
        /\ validated.r.Page < 1 => Mentions(validated.err, "page")

\* C5: during one call doer.Do is invoked at most once, and a call that has
\* returned invoked it exactly once if its request passed validation and not
\* at all otherwise, whatever the transport answered.
C5_OneDispatchPerCall ==
    /\ doCalls <= 1
    /\ pc = "returned" =>
         doCalls = IF Validate(SetDefaults(before)) = Nil THEN 1 ELSE 0

\* A call has returned after the upstream answered 503, and doer.Do was
\* invoked once.
C5_Witness ==
    /\ pc = "returned"
    /\ reply # None /\ reply.err = Nil /\ reply.status = 503
    /\ doCalls = 1

\* The error kind the table gives a status code.
TableKind(status) ==
    IF status = 400 THEN "ValidationError"
    ELSE IF status = 401 THEN "UnauthorizedError"
    ELSE IF status = 404 THEN "NotFoundError"
    ELSE IF status = 429 THEN "RateLimitError"
    ELSE IF status = 502 \/ status = 503 THEN "DependencyError"
    ELSE "InternalError"

\* C6: a response with a status code >= 400 never yields a response value,
\* and its error's kind is the one the table gives: 400 validation, 401
\* unauthorized, 404 not-found, 429 rate-limited, 502 and 503 dependency,
\* every other code internal.
C6_StatusToKind ==
    (BodyRead /\ reply.status >= 400) =>
        /\ result.resp = None
        /\ result.err.type = TableKind(reply.status)
        /\ result.err.status = reply.status

\* A call has returned the dependency error for a 503.
C6_Witness ==
    /\ BodyRead
    /\ reply.status = 503
    /\ result.err.type = "DependencyError"

\* The kinds of classified errors.
ClassifiedKinds ==
    {"ValidationError", "UnauthorizedError", "NotFoundError", "RateLimitError",
     "DependencyError", "InternalError"}

\* C7 as stated: every response whose status is outside 200..299 gives a
\* classified error and no decoded response, statuses below 400 included.
C7_Original ==
    (BodyRead /\ (reply.status < 200 \/ reply.status > 299)) =>
        /\ result.resp = None
        /\ result.err.type \in ClassifiedKinds
        /\ result.err.status = reply.status

\* C7 as amended: every response whose body was read and whose status is
\* >= 400 gives a classified error carrying that status and no decoded
\* response; a status below 400, 1xx and 3xx included, is not classified: its
\* body goes through the security check and the decoder like that of a 2xx,
\* and a well-formed body yields a response.
C7_ClassifiedFrom400 ==
    BodyRead =>
        /\ reply.status >= 400 =>
             /\ result.resp = None
             /\ result.err.type \in ClassifiedKinds
             /\ result.err.status = reply.status
        /\ reply.status < 400 =>
             /\ result.err = NoError \/ result.err.status = 0
             /\ reply.body = "json" <=> result.err = NoError
             /\ reply.body = "json" <=> result.resp # None

\* A 301 with a well-formed body was decoded into a response.
C7_Witness ==
    /\ BodyRead
    /\ reply.status = 301
    /\ reply.body = "json"
    /\ result.resp # None

\* C8: a request with a non-empty query and Num, GL, HL and Page unset is
\* prepared as Num = 10, GL = "us", HL = "en", Page = 1 with Q and Location
\* as the caller gave them, and the dispatched body carries these values.
C8_DefaultsApplied ==
    (/\ pc # "idle"
     /\ before.Q # ""
     /\ before.Num = 0 /\ before.GL = "" /\ before.HL = "" /\ before.Page = 0) =>
        /\ prepared = [Q |-> before.Q, Num |-> 10, GL |-> "us", HL |-> "en",
                       Location |-> before.Location, Page |-> 1]
        /\ sent # None
        /\ {"q", "num", "gl", "hl", "page"} \subseteq DOMAIN sent.body
        /\ sent.body["q"] = before.Q
        /\ sent.body["num"] = 10
        /\ sent.body["gl"] = "us"
        /\ sent.body["hl"] = "en"
        /\ sent.body["page"] = 1
        /\ before.Location # "" =>
             "location" \in DOMAIN sent.body /\ sent.body["location"] = before.Location

\* A request with only Q and Location set is in the transport's hands.
C8_Witness ==
    /\ pc = "inDo"
    /\ before = [Q |-> "golang", Num |-> 0, GL |-> "", HL |-> "",
                 Location |-> "New York", Page |-> 0]
    /\ sent.body["num"] = 10

\* C9: SetDefaults leaves every field among Num, GL, HL and Page that is
\* non-zero or non-empty as it is, negative and out-of-range values included,
\* and never changes Q or Location.
C9_ExplicitValuesKept ==
    \A i \in 1..(Len(sdHist) - 1) :
        LET a == sdHist[i]
            b == sdHist[i + 1]
        IN /\ a.Num # 0 => b.Num = a.Num
           /\ a.GL # "" => b.GL = a.GL
           /\ a.HL # "" => b.HL = a.HL
           /\ a.Page # 0 => b.Page = a.Page
           /\ b.Q = a.Q
           /\ b.Location = a.Location

\* SetDefaults was applied to a request with a negative Num, an explicit
\* country and an unset language.
C9_Witness ==
    /\ Len(sdHist) >= 2
    /\ sdHist[1].Num < 0 /\ sdHist[1].GL = "de" /\ sdHist[1].HL = ""
    /\ sdHist[2].HL = "en"

\* C10: applying SetDefaults a second time (or more often) gives the request
\* the first application gave.
C10_SetDefaultsIdempotent ==
    \A i \in 2..(Len(sdHist) - 1) : sdHist[i + 1] = sdHist[i]

\* SetDefaults was applied twice to a request the first application changed.
C10_Witness ==
    /\ Len(sdHist) >= 3
    /\ sdHist[2] # sdHist[1]
    /\ sdHist[3] = sdHist[2]

\* How often doRequest did the step in the call that has returned.
Count(step) == Cardinality({i \in DOMAIN trace : trace[i] = step})

\* The transport handed back a response to the call that has returned.
GotResponse ==
    /\ pc = "returned"
    /\ reply # None
    /\ reply.err = Nil

\* C12: when the transport has handed back a response, the body has been
\* closed exactly once by the time the call returns, as the last thing
\* doRequest does, whichever way it returns: body read failure, status of
\* 400 or more, body rejected by the security check, decode failure, success.
C12_BodyClosedOnce ==
    GotResponse =>
        /\ Count("close") = 1
        /\ trace[Len(trace)] = "close"
        /\ trace[1] = "read"

\* The body could not be read: doRequest returned the read error, having
\* closed the body.
C12_Witness ==
    /\ GotResponse
    /\ reply.body = "unreadable"
    /\ result.err.msg = "serper: read response"
    /\ trace = <<"read", "close">>

C14_Original ==
    (pc = "returned" /\ reply # None /\ reply.err # Nil) =>
        errorString(result.err) = reply.err

\* C14: when doer.Do returns an error the call returns an error that wraps
\* it under "serper: do request" (the transport's error is its cause, and
\* its text ends the message), no typed response, and does nothing with a
\* response: no body read, no classification, no security check, no decoding.
C14_TransportErrorWrapped ==
    (pc = "returned" /\ reply # None /\ reply.err # Nil) =>
        /\ result.resp = None
        /\ result.err.type = "error"
        /\ result.err.msg = "serper: do request"
        /\ result.err.detail = reply.err
        /\ errorString(result.err) = "serper: do request: " \o reply.err
        /\ trace = <<>>

\* The transport refused the connection.
C14_Witness ==
    /\ pc = "returned"
    /\ op \in Verticals
    /\ reply # None
    /\ reply.err = "connection refused"
    /\ result.err.detail = "connection refused"
    /\ ~ctx.cancelled

\* C15 as stated: the security check runs only on responses with a success
\* (2xx) status.
C15_Original ==
    (GotResponse /\ Count("secval") > 0) => reply.status \in 200..299

\* C15: the security check runs only on responses with a status below 400,
\* once, and decoding only after it has accepted the body; a body it rejects
\* (malformed JSON included) is never decoded and the call returns a
\* ValidationError "serper: unsafe response body" and no response; a
\* response with a status of 400 or more is classified without being
\* security-checked or decoded.
C15_CheckedBeforeDecoded ==
    GotResponse =>
        /\ Count("secval") > 0 => reply.status < 400 /\ Count("secval") = 1
        /\ Count("unmarshal") > 0 =>
              /\ secvalAccepts(reply.body)
              /\ \E i, j \in DOMAIN trace :
                    i < j /\ trace[i] = "secval" /\ trace[j] = "unmarshal"
        /\ (reply.status < 400 /\ reply.body # "unreadable") => Count("secval") = 1
        /\ (reply.status < 400 /\ reply.body \in {"unsafe", "malformed"}) =>
              /\ Count("unmarshal") = 0
              /\ result.resp = None
              /\ result.err.type = "ValidationError"
              /\ result.err.msg = "serper: unsafe response body"
        /\ reply.status >= 400 =>
              /\ Count("secval") = 0
              /\ Count("unmarshal") = 0
              /\ reply.body # "unreadable" => Count("classify") = 1

\* A 200 response with a body that is not JSON was rejected by the security
\* check and not decoded.
C15_Witness ==
    /\ GotResponse
    /\ op \in Verticals
    /\ reply.status = 200
    /\ reply.body = "malformed"
    /\ trace = <<"read", "secval", "close">>
    /\ result.err.type = "ValidationError"

\* C16: for a response with a status of 400 or more and a body of L bytes,
\* the error carries the first 1024 bytes of the body followed by
\* "...(truncated)" when L > 1024, and the whole body without the marker
\* when L <= 1024.
C16_ErrorBodyTruncated ==
    (GotResponse /\ reply.status >= 400 /\ reply.body # "unreadable") =>
        /\ reply.len > 1024 => result.err.text = [bytes |-> 1024, marker |-> TRUE]
        /\ reply.len <= 1024 =>
              result.err.text = [bytes |-> reply.len, marker |-> FALSE]

\* A 500 response with a body one byte over the limit was cut to 1024 bytes.
C16_Witness ==
    /\ GotResponse
    /\ reply.status = 500
    /\ reply.len = 1025
    /\ result.err.text = [bytes |-> 1024, marker |-> TRUE]

\* New has been called.
NewReturned == nw # None

\* C17: New called with an empty API key returns an error and no client,
\* whatever options it is given.
C17_EmptyKeyRejected ==
    (NewReturned /\ nw.apiKey = "") =>
        /\ nw.client = None
        /\ nw.err = "serper: API key must not be empty"

\* New was called with an empty key, a valid base URL and a transport.
C17_Witness ==
    /\ NewReturned
    /\ nw.apiKey = ""
    /\ nw.opts = <<WithBaseURL("https://example.com"), WithDoer("mockDoer")>>
    /\ nw.client = None

\* u has a scheme, "//" after it and a host after that.
AbsoluteURL(u) ==
    LET cs == chars(u)
        n == getScheme(cs, 1)
    IN /\ n > 0
       /\ Len(cs) >= n + 4
       /\ cs[n + 2] = "/" /\ cs[n + 3] = "/" /\ cs[n + 4] # "/"

\* C18: every client New returns has a base URL that is an absolute URL;
\* with a final base URL that is not one ("://bad", "", "/api") New returns
\* an error and no client.
C18_InvalidBaseURLRejected ==
    (NewReturned /\ nw.client # None) => AbsoluteURL(nw.client.baseURL)

\* The base URL the options leave the client with: that of the last
\* WithBaseURL among them, or the default.
LastBaseURL(opts) ==
    LET is == {i \in DOMAIN opts : opts[i].option = "WithBaseURL"}
    IN IF is = {} THEN "https://google.serper.dev"
       ELSE opts[CHOOSE i \in is : \A j \in is : j <= i].url

\* The transport the options leave the client with.
LastDoer(opts) ==
    LET is == {i \in DOMAIN opts : opts[i].option = "WithDoer"}
    IN IF is = {} THEN "http.Client"
       ELSE opts[CHOOSE i \in is : \A j \in is : j <= i].doer

\* C19: New applies the options in order and the last option for a setting
\* wins; the base URL is judged on its final value alone, so an invalid
\* override followed by a valid one constructs a client with the later URL
\* and a valid one followed by an invalid one fails.
C19_LastOptionWins ==
    (NewReturned /\ nw.apiKey # "") =>
        /\ (nw.client # None) <=> (ParseRequestURI(LastBaseURL(nw.opts)) = Nil)
        /\ (nw.client # None) <=> (nw.err = Nil)
        /\ nw.client # None =>
              /\ nw.client.baseURL = LastBaseURL(nw.opts)
              /\ nw.client.doer = LastDoer(nw.opts)
              /\ nw.client.apiKey = nw.apiKey
        /\ nw.opts = <<WithBaseURL("://bad"), WithBaseURL("https://example.com")>> =>
              nw.client # None /\ nw.client.baseURL = "https://example.com"
        /\ nw.opts = <<WithBaseURL("https://example.com"), WithBaseURL("://bad")>> =>
              nw.client = None

\* An invalid base URL was overridden by a valid one, and New constructed
\* the client.
C19_Witness ==
    /\ NewReturned
    /\ nw.opts = <<WithBaseURL("://bad"), WithBaseURL("https://example.com")>>
    /\ nw.client # None
    /\ nw.client.baseURL = "https://example.com"

\* What the call returns when it runs alone: name(cx, r) with the transport
\* answering rep.
Solo(name, r, rep) ==
    IF Validate(SetDefaults(r)) # Nil
        THEN [resp |-> None, err |-> Error("error", Validate(SetDefaults(r)), 0, "")]
        ELSE returned(name, afterDo(rep))

\* C11: with goroutines calling verticals concurrently on one Client and one
\* SearchRequest object, under every interleaving the client's fields and
\* the request stay as they were, and each call returns what it returns
\* when run alone with the same request, context and transport reply.
C11_ConcurrentCallsIndependent ==
    /\ client = [apiKey |-> "my-api-key", baseURL |-> "https://google.serper.dev",
                 doer |-> "http.Client"]
    /\ \A k \in Callers :
          /\ calls[k].pc # "idle" => req = calls[k].arg
          /\ calls[k].pc = "inDo" =>
                /\ calls[k].sent.body = Marshal(SetDefaults(calls[k].arg))
                /\ calls[k].sent.ctx = calls[k].ctx
          /\ calls[k].pc = "returned" =>
                calls[k].result = Solo(calls[k].op, calls[k].arg, calls[k].reply)

\* Two goroutines passed the same request, which needs every default; one
\* has its response, the other is still in the transport.
C11_Witness ==
    /\ calls[1].pc = "returned" /\ calls[1].result.err = NoError
    /\ calls[2].pc = "inDo"
    /\ calls[1].arg = calls[2].arg
    /\ req.Num = 0
    /\ calls[2].sent.body["num"] = 10

\* C20: a call on a context that carries a non-empty API key override sends
\* the override as X-API-KEY, for that call only: the client's key stays as
\* configured, and every later or concurrent call on a context without an
\* override sends the client's key.
C20_OverrideForOneCall ==
    /\ client.apiKey = "my-api-key"
    /\ \A k \in Callers :
          calls[k].sent # None =>
              /\ calls[k].ctx.apiKey # "" =>
                    calls[k].sent.header.XAPIKEY = calls[k].ctx.apiKey
              /\ calls[k].ctx.apiKey = "" =>
                    calls[k].sent.header.XAPIKEY = "my-api-key"

\* A call with the override "tenant-key" and a call without override are in
\* the transport at the same time, each with its own key.
C20_Witness ==
    /\ calls[1].pc = "inDo" /\ calls[1].ctx.apiKey = "tenant-key"
    /\ calls[1].sent.header.XAPIKEY = "tenant-key"
    /\ calls[2].pc = "inDo" /\ calls[2].ctx.apiKey = ""
    /\ calls[2].sent.header.XAPIKEY = "my-api-key"

C22_ClientImmutable ==
    /\ client = nw.client
    /\ client.apiKey = nw.apiKey
    /\ client.baseURL = LastBaseURL(nw.opts)
    /\ client.doer = LastDoer(nw.opts)

\* A client constructed with a base URL of its own has been through a
\* CheckConnectivity on a context with an override.
C22_Witness ==
    /\ pc = "returned"
    /\ op = "CheckConnectivity"
    /\ keys = <<"tenant-key">>
    /\ sent # None /\ sent.header.XAPIKEY = "tenant-key"
    /\ nw.opts = <<WithBaseURL("https://example.com")>>
    /\ client.baseURL = "https://example.com"
    /\ client.apiKey = "my-api-key"

\* C29: WithAPIKey with an empty key on a context that carries a non-empty
\* override K leaves K in effect: the call on the resulting context sends K,
\* not the client's configured key.
C29_EmptyKeyKeepsOverride ==
    (/\ sent # None
     /\ Len(keys) >= 2
     /\ keys[Len(keys)] = ""
     /\ keys[Len(keys) - 1] # "") =>
        /\ sent.header.XAPIKEY = keys[Len(keys) - 1]
        /\ sent.header.XAPIKEY # client.apiKey

\* WithAPIKey was applied with "tenant-key" and then with the empty key, and
\* the call sent "tenant-key".
C29_Witness ==
    /\ pc = "inDo"
    /\ keys = <<"tenant-key", "">>
    /\ sent.header.XAPIKEY = "tenant-key"

\* C23: each vertical dispatches a POST to the client's base URL followed by
\* its own path (Search /search, Images /images, News /news, Places /places,
\* Scholar /scholar), with Content-Type: application/json and X-API-KEY equal
\* to the effective API key, and never to the path of another vertical.
C23_PostToOwnPath ==
    (op \in Verticals /\ sent # None) =>
        /\ sent.method = "POST"
        /\ sent.url = client.baseURL \o
              (CASE op = "Search" -> "/search"
                 [] op = "Images" -> "/images"
                 [] op = "News" -> "/news"
                 [] op = "Places" -> "/places"
                 [] op = "Scholar" -> "/scholar")
        /\ DOMAIN sent.header = {"ContentType", "XAPIKEY"}
        /\ sent.header.ContentType = "application/json"
        /\ sent.header.XAPIKEY = (IF ctx.apiKey # "" THEN ctx.apiKey ELSE client.apiKey)

\* An Images call on a context with an override is in the transport.
C23_Witness ==
    /\ pc = "inDo"
    /\ op = "Images"
    /\ sent.url = "https://google.serper.dev/images"
    /\ sent.header.XAPIKEY = "tenant-key"

\* C25: CheckConnectivity dispatches exactly one request, a web search to
\* /search with query "test" and count 1, and returns nil exactly when that
\* search succeeds; a transport failure, a classified HTTP error, an unsafe
\* or an undecodable body is returned as its error.
C25_ConnectivityIsOneSearch ==
    op = "CheckConnectivity" =>
        /\ sent # None
        /\ doCalls = 1
        /\ sent.method = "POST"
        /\ sent.url = client.baseURL \o "/search"
        /\ sent.body["q"] = "test"
        /\ sent.body["num"] = 1
        /\ pc = "returned" =>
              /\ result.resp = None
              /\ (result.err = NoError) <=>
                    /\ reply.err = Nil
                    /\ reply.status < 400
                    /\ reply.body = "json"
              /\ reply.err # Nil => result.err.msg = "serper: do request"
              /\ (reply.err = Nil /\ reply.body = "unreadable") =>
                    result.err.msg = "serper: read response"
              /\ (reply.err = Nil /\ reply.body # "unreadable" /\ reply.status >= 400) =>
                    result.err.status = reply.status
              /\ (reply.err = Nil /\ reply.status < 400
                    /\ reply.body \in {"unsafe", "malformed"}) =>
                    result.err.msg = "serper: unsafe response body"
              /\ (reply.err = Nil /\ reply.status < 400 /\ reply.body = "mistyped") =>
                    result.err.msg = "serper: unmarshal response"

\* CheckConnectivity got a 401 and returned the AuthError.
C25_Witness ==
    /\ pc = "returned"
    /\ op = "CheckConnectivity"
    /\ reply.err = Nil /\ reply.status = 401 /\ reply.body = "json"
    /\ result.err.status = 401

\* C26: the serialized body has a location member exactly when the request's
\* Location is non-empty, and then with the Location as given.
C26_LocationOmittedWhenEmpty ==
    sent # None =>
        /\ ("location" \in DOMAIN sent.body) <=> (before.Location # "")
        /\ before.Location # "" => sent.body["location"] = before.Location
        /\ (\E i \in DOMAIN readers[1].data : readers[1].data[i].key = "location")
              <=> (before.Location # "")

\* A request without Location went out without a location member.
C26_Witness ==
    /\ pc = "inDo"
    /\ op \in Verticals
    /\ before.Location = ""
    /\ DOMAIN sent.body = {"q", "num", "gl", "hl", "page"}

\* C27: every request that reaches the transport through a vertical, for
\* any SearchRequest the caller passed, has in its serialized body a
\* non-empty query, a count in 1..100, a page of at least 1 and non-empty
\* country and language codes.
C27_DispatchedRequestValid ==
    (op \in Verticals /\ sent # None) =>
        /\ {"q", "num", "gl", "hl", "page"} \subseteq DOMAIN sent.body
        /\ sent.body["q"] # ""
        /\ sent.body["num"] \in 1..100
        /\ sent.body["page"] >= 1
        /\ sent.body["gl"] # ""
        /\ sent.body["hl"] # ""

\* A request with the largest count went out.
C27_Witness ==
    /\ pc = "inDo"
    /\ op \in Verticals
    /\ before.Num = 100
    /\ sent.body["num"] = 100

\* C28: a vertical returns exactly one of a typed response and an error,
\* whichever way it returns: validation failure, transport failure,
\* classified status, unsafe body, decode failure, success.
C28_ResponseXorError ==
    (pc = "returned" /\ op \in Verticals) =>
        /\ (result.resp # None) <=> (result.err = NoError)
        /\ result.resp # None => result.resp.type = respType(endpointOf(op))

\* A body that passed the security check did not fit the response type: the
\* call returned the decode error and no response.
C28_Witness ==
    /\ pc = "returned"
    /\ op \in Verticals
    /\ reply # None /\ reply.err = Nil
    /\ reply.status = 200 /\ reply.body = "mistyped"
    /\ result.resp = None
    /\ result.err.msg = "serper: unmarshal response"

\* The bytes json.Marshal produced for the prepared request of the call.
SerializedBody == jsonBytes(Marshal(prepared))

\* C24: every invocation of the request's GetBody, however many there are
\* and however far the request's Body and the earlier replays have been
\* read, yields a new reader at the start of bytes identical to the
\* serialized body of the prepared request, and leaves the other readers
\* where they were.
C24_GetBodyReplays ==
    /\ [](\A i \in DOMAIN readers :
             /\ readers[i].data = SerializedBody
             /\ readers[i].pos \in 0..Len(SerializedBody))
    /\ [][(Len(readers) >= 1 /\ Len(readers') = Len(readers) + 1) =>
             /\ readers'[Len(readers')] = [data |-> SerializedBody, pos |-> 0]
             /\ SubSeq(readers', 1, Len(readers)) = readers]_vars

\* The request's Body and a first replay have been read to the end, and a
\* second replay stands at the start of the six members of the body.
C24_Witness ==
    /\ Len(readers) = 3
    /\ Len(readers[1].data) = 6
    /\ readers[1].pos = 6
    /\ readers[2].pos = 6
    /\ readers[3] = [data |-> SerializedBody, pos |-> 0]

\* C30: of every response, whatever its status, the client reads at most
\* 10 * 1024 * 1024 bytes of the body: a shorter body is read whole, and a
\* longer one is handled as its first 10 MB: its error text is cut from
\* those, and as a JSON document cut short it is rejected, not decoded.
C30_ReadCapped ==
    GotResponse =>
        /\ nread <= 10485760
        /\ reply.len <= 10485760 => nread = reply.len
        /\ reply.len > 10485760 =>
              /\ nread = 10485760
              /\ result.resp = None
              /\ (reply.body # "unreadable" /\ reply.status >= 400) =>
                    result.err.text = [bytes |-> 1024, marker |-> TRUE]
              /\ (reply.body = "json" /\ reply.status < 400) =>
                    /\ result.err.msg = "serper: unsafe response body"
                    /\ Count("unmarshal") = 0

\* A 200 response with a JSON body one byte over the limit was read up to
\* the limit and rejected.
C30_Witness ==
    /\ GotResponse
    /\ reply.status = 200
    /\ reply.body = "json"
    /\ reply.len = 10485761
    /\ nread = 10485760
    /\ result.err.type = "ValidationError"

====
